---- MODULE Spec2Model ----
(***************************************************************************)
(* Concept tagging with an encoder-decoder recurrent network:              *)
(* models/encoder.py (EncoderDecoderRNN) and run_model.py (training,       *)
(* evaluation, prediction, prediction writer, argument parsing).           *)
(*                                                                         *)
(* Tensors of indices are sequences (a matrix is a sequence of rows).      *)
(* Floating-point tensors are opaque: a hidden state is kept by its shape, *)
(* a row of log-probabilities by its score levels, an embedding row by the *)
(* level of its L2 norm, a loss by its level.                              *)
(***************************************************************************)
EXTENDS Integers, Sequences, FiniteSets, TLC

VARIABLES
    \* ---- the model (EncoderDecoderRNN, or the CRF model of models/lstmcrf)
    is_crf,              \* isinstance(model, lstmcrf.LstmCrf)
    hidden_dim,          \* self.hidden_dim
    bidirectional,       \* self.bidirectional
    freeze,              \* the token embedding is frozen (not params["unfreeze"])
    training,            \* model.training (model.train() / model.eval())
    embedding_encoder,   \* norm level of each row of the token-embedding table
    embedding_decoder,   \* norm level of each row of the tag-embedding table
    weights,             \* recurrent and linear weights: number of updates applied
    \* ---- EncoderDecoderRNN.forward: one call
    fpc,                 \* position in forward
    batch,               \* the argument
    hidden_encoder,      \* shape of the encoder's hidden state
    data,                \* padded token indices (N, T)
    labels,              \* padded gold labels (N, T)
    encoder_output,      \* shape of the encoder's output
    decoder_input,       \* label indices fed to the decoder (N, 1)
    hidden_decoder,      \* shape of the decoder's hidden state
    di,                  \* decoder steps completed
    results,             \* the step outputs collected, each (N, 1, tagset_size)
    ret,                 \* what forward returns
    fed,                 \* history: the decoder_input of every decoder_forward call
    twin_input,          \* decoder_input of the same call on the batch with other gold labels
    \* ---- the file system and one call of write_predictions
    files,               \* path -> the strings written to the file, or Absent
    wpc,                 \* position of the write_predictions call
    w_args,              \* its arguments
    \* ---- __main__: parse_args and pick_model_transform
    mpc,                 \* position in __main__
    opts,                \* the command-line options, parsed by getopt
    params,              \* the dictionary parse_args returns
    constructed,         \* what pick_model_transform has constructed so far
    failure,             \* the exception that ended the run, or "none"
    \* ---- train_model, evaluate_model, predict
    rpc,                 \* position in run_model.py
    run_args,            \* train_data, dev_data, test_data, batch_size, epochs, decay, lr, dataset
    epoch,               \* train_model: epoch
    remaining,           \* examples the DataLoader being iterated has not served yet
    cur_batch,           \* batch
    loss,                \* loss of the current batch
    grads,               \* gradients held by the parameters (rows of the tables)
    optimizer,           \* Adam: the rows of the tables with a non-zero running average
    error,               \* train_model: error
    y_predicted,         \* train_model: y_predicted
    y_true,              \* train_model: y_true
    scheduler,           \* ReduceLROnPlateau: best, num_bad_epochs, last_epoch, the lr it sets
    means,               \* history: the values scheduler.step has been called with
    e_error,             \* evaluate_model: error
    e_y_predicted,       \* evaluate_model / predict: y_predicted
    e_y_true,            \* evaluate_model: y_true
    e_return,            \* the caller of evaluate_model
    scan                 \* history: the batch last scanned, its predictions, the groups before

modelVars == <<is_crf, hidden_dim, bidirectional, freeze, training,
               embedding_encoder, embedding_decoder, weights>>

fwdVars == <<fpc, batch, hidden_encoder, data, labels, encoder_output,
             decoder_input, hidden_decoder, di, results, ret, fed, twin_input>>

writeVars == <<files, wpc, w_args>>

mainVars == <<mpc, opts, params, constructed>>

runVars == <<rpc, run_args, epoch, remaining, cur_batch, loss, grads, optimizer, error,
             means,
             y_predicted, y_true, scheduler, e_error, e_y_predicted, e_y_true,
             e_return, scan>>

vars == <<modelVars, fwdVars, writeVars, mainVars, failure, runVars>>

\* ------------------------------------------------------------------ bounds
MaxBatch == 2        \* examples in one batch
MaxLen == 3          \* tokens in one example
MaxHidden == 4       \* largest hidden_dim tried
MaxExamples == 2     \* examples handed to write_predictions
MaxWriteLen == 2     \* positions of an example handed to write_predictions
MaxData == 2         \* examples in a data set
MaxEpochs == 2       \* largest epochs tried
MaxLoss == 2         \* loss levels

\* ------------------------------------------------------------- generic helpers
RECURSIVE Concat(_)
\* concatenation of a sequence of sequences
Concat(ss) == IF ss = <<>> THEN <<>> ELSE Head(ss) \o Concat(Tail(ss))

RECURSIVE SumSeq(_)
SumSeq(s) == IF s = <<>> THEN 0 ELSE Head(s) + SumSeq(Tail(s))

Max(S) == CHOOSE x \in S : \A y \in S : y <= x

Range(s) == {s[i] : i \in DOMAIN s}

\* ------------------------------------------------------------- the data
\* data_manager.class_vocab_movies, label name -> index (the names of a small
\* label set stand for the data set's)
class_vocab_movies == ("O" :> 0) @@ ("B-movie" :> 1)

\* data_manager.w2v_matrix_vocab_generator: token -> row of the word-vector
\* matrix; the last row is the padding token's
w2v_vocab == ("film" :> 0) @@ ("<UNK>" :> 1) @@ ("<padding>" :> 2)

\* pick_model_transform: the model is built with len(class_vocab) labels
tagset_size == Cardinality(DOMAIN class_vocab_movies)
Labels == 0 .. (tagset_size - 1)
\* rows of the tag-embedding table: the labels and one extra last row
DecoderRows == 0 .. tagset_size
padding_index == w2v_vocab["<padding>"]
EncoderRows == {w2v_vocab[k] : k \in DOMAIN w2v_vocab}
Words == EncoderRows \ {padding_index}
IgnoreLabel == 0 - 1

\* An example: token indices and as many label indices. Its tokens repeat one
\* word and its labels alternate from a first label, so that every position of
\* an example is told from its neighbours.
Example(len, w, c) ==
    [tokens |-> [p \in 1 .. len |-> w],
     concepts |-> [p \in 1 .. len |-> (c + p - 1) % tagset_size]]

Examples == {Example(len, w, c) : len \in 1 .. MaxLen, w \in Words, c \in Labels}

Batches == UNION {[1 .. n -> Examples] : n \in 1 .. MaxBatch}

Lengths(b) == [i \in 1 .. Len(b) |-> Len(b[i].tokens)]

MaxLength(b) == Max(Range(Lengths(b)))

\* data_manager.batch_sequence: token matrix padded with the padding index
PaddedData(b) ==
    [i \in 1 .. Len(b) |->
        [t \in 1 .. MaxLength(b) |->
            IF t <= Len(b[i].tokens) THEN b[i].tokens[t] ELSE padding_index]]

\* data_manager.batch_sequence: label matrix padded with -1
PaddedLabels(b) ==
    [i \in 1 .. Len(b) |->
        [t \in 1 .. MaxLength(b) |->
            IF t <= Len(b[i].concepts) THEN b[i].concepts[t] ELSE IgnoreLabel]]

batch_sequence(b) ==
    [data |-> PaddedData(b), labels |-> PaddedLabels(b), lengths |-> Lengths(b)]

\* tensor.view(-1) of a matrix, and tensor.view(-1, k) of a (N, T, k) tensor:
\* row-major flattening of the two leading axes
View(m) == Concat(m)

\* ------------------------------------------------------------- embeddings
\* nn.Embedding with max_norm: a lookup rescales, in place, every looked-up
\* row whose norm exceeds max_norm; the other rows are not touched.
RenormNone(weight, indices, max_norm) == weight

RenormAll(weight, indices, max_norm) ==
    [r \in DOMAIN weight |-> IF weight[r] > max_norm THEN max_norm ELSE weight[r]]

Renorm(weight, indices, max_norm) ==
    [r \in DOMAIN weight |->
        IF r \in indices /\ weight[r] > max_norm THEN max_norm ELSE weight[r]]

\* parse_args: the default of --embedding_norm, handed to the model as both
\* max_norm_emb1 and max_norm_emb2
embedding_norm == 10
max_norm_emb1 == embedding_norm
max_norm_emb2 == embedding_norm

\* the norm levels a row is tried at: zero, at the bound, above the bound
RowNorms == {0, embedding_norm, 2 * embedding_norm}

\* indices held by a matrix of indices
Indices(m) == UNION {Range(m[i]) : i \in DOMAIN m}

\* ------------------------------------------------------------- idle components
Absent == "absent"
Paths == {"../output/train_pred.txt", "../output/dev_pred.txt", "predictions.txt"}
None == "None"
\* no scan recorded
NoScan == [batch |-> <<>>, indices |-> <<>>, before |-> 0, by |-> "none"]
\* dev_data=None (a data set is a non-empty sequence of examples)
NoData == <<>>

UniformTable(rows, n) == [r \in rows |-> n]

ModelIdle ==
    /\ is_crf = FALSE
    /\ hidden_dim = 2
    /\ bidirectional = FALSE
    /\ freeze = TRUE
    /\ training = TRUE
    /\ embedding_encoder = UniformTable(EncoderRows, embedding_norm)
    /\ embedding_decoder = UniformTable(DecoderRows, embedding_norm)
    /\ weights = 0

ForwardIdle ==
    /\ fpc = "idle"
    /\ batch = <<>>
    /\ hidden_encoder = <<>>
    /\ data = <<>>
    /\ labels = <<>>
    /\ encoder_output = <<>>
    /\ decoder_input = <<>>
    /\ hidden_decoder = <<>>
    /\ di = 0
    /\ results = <<>>
    /\ ret = <<>>
    /\ fed = <<>>
    /\ twin_input = <<>>

WriteIdle ==
    /\ files = [p \in Paths |-> Absent]
    /\ wpc = "idle"
    /\ w_args = <<>>

MainIdle ==
    /\ mpc = "idle"
    /\ opts = <<>>
    /\ params = <<>>
    /\ constructed = {}

RunIdle ==
    /\ rpc = "idle"
    /\ run_args = <<>>
    /\ epoch = 0
    /\ remaining = {}
    /\ cur_batch = <<>>
    /\ loss = 0
    /\ grads = [encoder_rows |-> {}, decoder_rows |-> {}]
    /\ optimizer = [encoder_rows |-> {}, decoder_rows |-> {}]
    /\ error = <<>>
    /\ y_predicted = <<>>
    /\ y_true = <<>>
    /\ scheduler = <<>>
    /\ means = <<>>
    /\ e_error = <<>>
    /\ e_y_predicted = <<>>
    /\ e_y_true = <<>>
    /\ e_return = "none"
    /\ scan = NoScan

\* ------------------------------------------------------------- the network
\* A row of log-probabilities over the labels whose largest entry is at k
LogProbRow(k) == [l \in Labels |-> IF l = k THEN 0 - 1 ELSE 0 - 2]

\* decoder_output.topk(1): the index of the largest entry of a row
Argmax(row) == CHOOSE k \in DOMAIN row : \A l \in DOMAIN row : row[l] <= row[k]

\* torch.add(input, alpha, other): a new tensor input + alpha * other; the
\* arguments are left as they are
TorchAdd(input, alpha, other) ==
    [i \in DOMAIN input |-> [j \in DOMAIN input[i] |-> input[i][j] + alpha * other[i][j]]]

\* torch.zeros(n, 1).long()
Zeros(n) == [i \in 1 .. n |-> <<0>>]

\* forward, lines 96-98: the result of torch.add is dropped, decoder_input is
\* the tensor of zeros it was created as
StartToken(n) ==
    LET decoder_input0 == Zeros(n)
        dropped == TorchAdd(decoder_input0, tagset_size, decoder_input0)
    IN  decoder_input0

\* hidden size of the encoder's recurrent layer (per direction)
EncoderHidden(hd, bi) == hd \div (IF bi THEN 2 ELSE 1)

\* init_hidden_encoder: the shape of the zero state
init_hidden_encoder(hd, bi, batch_size) ==
    IF bi THEN <<2, batch_size, hd \div 2>> ELSE <<1, batch_size, hd>>

\* forward, lines 101-104: shape of the state handed to the decoder
Bridge(he, bi) ==
    IF bi THEN <<1, he[2], he[3] + he[3]>> ELSE he

\* forward, lines 111-112: the next decoder input is the arg-max of the step's
\* output; gold (the labels of line 88) and the step t are in scope, not read
DecoderFeedbackForced(decoder_output, gold, t) ==
    [i \in DOMAIN decoder_output |->
        <<IF gold[i][t] = IgnoreLabel THEN 0 ELSE gold[i][t]>>]

DecoderFeedback(decoder_output, gold, t) ==
    [i \in DOMAIN decoder_output |-> <<Argmax(decoder_output[i][1])>>]

\* torch.cat(results, dim=1) of step outputs of shape (N, 1, k): shape (N, T, k)
TorchCatDim0(rs) == Concat(rs)

TorchCat(rs) ==
    IF rs = <<>> THEN <<>>
    ELSE [i \in DOMAIN rs[1] |-> Concat([s \in DOMAIN rs |-> rs[s][i]])]

\* ------------------------------------------------------------- forward
\* parse_args, line 303: hidden_size > 0
HiddenDims == 1 .. MaxHidden

\* nn.BatchNorm2d in training mode refuses an input with a single value per
\* channel: decoder_forward hands it n * 1 * hd values in its one channel
BatchNormFits(tr, n, hd) == ~(tr /\ n * hd = 1)

\* the same batch with every gold label replaced by another label
TwinBatch(b) ==
    [i \in DOMAIN b |->
        [tokens |-> b[i].tokens,
         concepts |-> [p \in DOMAIN b[i].concepts |->
                          (b[i].concepts[p] + 1) % tagset_size]]]

\* forward is called on a batch, the model in training or in evaluation mode.
\* With hidden_dim = 1 and bidirectional the encoder's recurrent layer has
\* hidden size 0 (line 42): nn.GRU is built or raises in the constructor
\* (ZeroDivisionError in its weight initialisation, ValueError in its argument
\* check), depending on the version of the library; then there is no model.
ForwardInit ==
    /\ WriteIdle /\ MainIdle /\ RunIdle
    /\ is_crf = FALSE
    /\ freeze = TRUE
    /\ training \in BOOLEAN
    /\ weights = 0
    /\ hidden_dim \in HiddenDims
    /\ bidirectional \in BOOLEAN
    /\ \E n \in RowNorms \ {0} :
          /\ embedding_encoder = UniformTable(EncoderRows, n)
          /\ embedding_decoder = UniformTable(DecoderRows, n)
    /\ batch \in Batches
    /\ \/ fpc = "init_hidden" /\ failure = "none"
       \/ /\ EncoderHidden(hidden_dim, bidirectional) = 0
          /\ fpc = "unbuilt"
          /\ failure \in {"ZeroDivisionError", "ValueError"}
    /\ hidden_encoder = <<>>
    /\ data = <<>>
    /\ labels = <<>>
    /\ encoder_output = <<>>
    /\ decoder_input = <<>>
    /\ hidden_decoder = <<>>
    /\ di = 0
    /\ results = <<>>
    /\ ret = <<>>
    /\ fed = <<>>
    /\ twin_input = <<>>

\* line 85
F_InitHidden ==
    /\ fpc = "init_hidden"
    /\ hidden_encoder' = init_hidden_encoder(hidden_dim, bidirectional, Len(batch))
    /\ fpc' = "embed"
    /\ UNCHANGED <<writeVars, mainVars, failure, runVars>>
    /\ UNCHANGED <<is_crf, freeze, training, weights>>
    /\ UNCHANGED <<hidden_dim, bidirectional, embedding_encoder, embedding_decoder,
                   batch, data, labels, encoder_output, decoder_input,
                   hidden_decoder, di, results, ret, fed, twin_input>>

\* lines 88-90: pad the batch, look the tokens up (rows above max_norm are
\* rescaled in place), dropout
F_Embed ==
    /\ fpc = "embed"
    /\ data' = batch_sequence(batch).data
    /\ labels' = batch_sequence(batch).labels
    /\ embedding_encoder' = Renorm(embedding_encoder, Indices(data'), max_norm_emb1)
    /\ fpc' = "encode"
    /\ UNCHANGED <<writeVars, mainVars, failure, runVars>>
    /\ UNCHANGED <<is_crf, freeze, training, weights>>
    /\ UNCHANGED <<hidden_dim, bidirectional, embedding_decoder, batch,
                   hidden_encoder, encoder_output, decoder_input, hidden_decoder,
                   di, results, ret, fed, twin_input>>

\* line 93: the recurrent encoder, batch_first; output (N, T, directions * hidden),
\* final hidden state (directions, N, hidden)
F_Encode ==
    /\ fpc = "encode"
    /\ encoder_output' = <<Len(data), Len(data[1]),
                           (IF bidirectional THEN 2 ELSE 1)
                             * EncoderHidden(hidden_dim, bidirectional)>>
    /\ hidden_encoder' = <<IF bidirectional THEN 2 ELSE 1, Len(data),
                           EncoderHidden(hidden_dim, bidirectional)>>
    /\ fpc' = "start_token"
    /\ UNCHANGED <<writeVars, mainVars, failure, runVars>>
    /\ UNCHANGED <<is_crf, freeze, training, weights>>
    /\ UNCHANGED <<hidden_dim, bidirectional, embedding_encoder, embedding_decoder,
                   batch, data, labels, decoder_input, hidden_decoder, di,
                   results, ret, fed, twin_input>>

\* lines 96-98
F_StartToken ==
    /\ fpc = "start_token"
    /\ decoder_input' = StartToken(Len(batch))
    /\ twin_input' = StartToken(Len(batch))
    /\ fpc' = "bridge"
    /\ UNCHANGED <<writeVars, mainVars, failure, runVars>>
    /\ UNCHANGED <<is_crf, freeze, training, weights>>
    /\ UNCHANGED <<hidden_dim, bidirectional, embedding_encoder, embedding_decoder,
                   batch, hidden_encoder, data, labels, encoder_output,
                   hidden_decoder, di, results, ret, fed>>

\* lines 101-104
F_Bridge ==
    /\ fpc = "bridge"
    /\ hidden_decoder' = Bridge(hidden_encoder, bidirectional)
    /\ fpc' = "decode"
    /\ UNCHANGED <<writeVars, mainVars, failure, runVars>>
    /\ UNCHANGED <<is_crf, freeze, training, weights>>
    /\ UNCHANGED <<hidden_dim, bidirectional, embedding_encoder, embedding_decoder,
                   batch, hidden_encoder, data, labels, encoder_output,
                   decoder_input, di, results, ret, fed, twin_input>>

\* the number of iterations of the decoder loop, line 108
LoopBound(eo, b) == eo[2]

\* lines 108-113, one iteration: decoder_forward (tag lookup, dropout, relu,
\* recurrent layer, batch norm, dropout, linear, log-softmax), arg-max feedback,
\* results.append. The recurrent layer (line 75) raises RuntimeError when the
\* hidden state it is given has not its hidden size; the batch norm (line 76)
\* raises ValueError in training mode on a single value. The numbers are opaque: top[i] is the label
\* the network scores highest for element i; fed another label (the twin
\* call), it may score another label highest (alt[i]); fed the same, the same.
F_DecoderForward ==
    /\ fpc = "decode"
    /\ di < LoopBound(encoder_output, batch)
    /\ fed' = Append(fed, decoder_input)
    /\ embedding_decoder' =
          Renorm(embedding_decoder, Indices(decoder_input), max_norm_emb2)
    /\ IF hidden_decoder[3] # hidden_dim \/ ~BatchNormFits(training, Len(batch), hidden_dim)
       THEN /\ fpc' = "error"
            /\ failure' = (IF hidden_decoder[3] # hidden_dim
                            THEN "RuntimeError" ELSE "ValueError")
            /\ UNCHANGED <<decoder_input, twin_input, di, results>>
       ELSE \E top \in [DOMAIN decoder_input -> Labels],
                  alt \in [DOMAIN decoder_input -> Labels] :
              LET decoder_output ==
                      [i \in DOMAIN decoder_input |-> <<LogProbRow(top[i])>>]
                  twin_output ==
                      [i \in DOMAIN twin_input |->
                          <<LogProbRow(IF twin_input[i] = decoder_input[i]
                                       THEN top[i] ELSE alt[i])>>]
              IN  /\ twin_input = decoder_input => alt = top
                  /\ decoder_input' = DecoderFeedback(decoder_output, labels, di + 1)
                  /\ twin_input' =
                        DecoderFeedback(twin_output,
                                        PaddedLabels(TwinBatch(batch)), di + 1)
                  /\ results' = Append(results, decoder_output)
                  /\ di' = di + 1
                  /\ fpc' = "decode"
                  /\ UNCHANGED failure
    /\ UNCHANGED <<writeVars, mainVars, runVars>>
    /\ UNCHANGED <<is_crf, freeze, training, weights>>
    /\ UNCHANGED <<hidden_dim, bidirectional, embedding_encoder, batch,
                   hidden_encoder, data, labels, encoder_output, hidden_decoder, ret>>

\* lines 115-116
F_Return ==
    /\ fpc = "decode"
    /\ di >= LoopBound(encoder_output, batch)
    /\ ret' = [predicted |-> View(TorchCat(results)), labels |-> View(labels)]
    /\ fpc' = "done"
    /\ UNCHANGED <<writeVars, mainVars, failure, runVars>>
    /\ UNCHANGED <<is_crf, freeze, training, weights>>
    /\ UNCHANGED <<hidden_dim, bidirectional, embedding_encoder, embedding_decoder,
                   batch, hidden_encoder, data, labels, encoder_output,
                   decoder_input, hidden_decoder, di, results, fed, twin_input>>

ForwardNext ==
    \/ F_InitHidden
    \/ F_Embed
    \/ F_Encode
    \/ F_StartToken
    \/ F_Bridge
    \/ F_DecoderForward
    \/ F_Return

SpecForward == ForwardInit /\ [][ForwardNext]_vars

\* ------------------------------------------------------------- write_predictions
\* line 66: {v: k for k, v in class_vocab.items()}
IndexToClass(class_vocab) ==
    [v \in {class_vocab[k] : k \in DOMAIN class_vocab} |->
        CHOOSE k \in DOMAIN class_vocab : class_vocab[k] = v]

\* line 71: "%s %s %s\n" % (word, conc, index_to_class[predicted_concept])
LineSwapped(word, conc, pred) == word \o " " \o pred \o " " \o conc \o "\n"

Line(word, conc, pred) == word \o " " \o conc \o " " \o pred \o "\n"

Min(a, b) == IF a <= b THEN a ELSE b

\* lines 69-72: the writes of one example, zip stops at the shortest sequence
ExampleWrites(tokens_seq, labels_seq, predictions_seq, indexed_labels, index_to_class) ==
    [p \in 1 .. Min(Len(tokens_seq), Min(Len(labels_seq), Len(predictions_seq))) |->
        Line(tokens_seq[p],
             IF indexed_labels THEN index_to_class[labels_seq[p]] ELSE labels_seq[p],
             index_to_class[predictions_seq[p]])]
    \o <<"\n">>

\* lines 66-72: the sequence of strings written to the file, in order
write_predictions(tokens, lbls, predictions, indexed_labels, class_vocab) ==
    LET index_to_class == IndexToClass(class_vocab)
        n == Min(Len(tokens), Min(Len(lbls), Len(predictions)))
    IN  Concat([e \in 1 .. n |->
                  ExampleWrites(tokens[e], lbls[e], predictions[e],
                                indexed_labels, index_to_class)])

RECURSIVE FileText(_)
\* the text of a file: the strings written to it, one after the other
FileText(writes) == IF writes = <<>> THEN "" ELSE Head(writes) \o FileText(Tail(writes))

\* the arguments write_predictions is tried on
TokenNames == <<"a", "b", "c">>
WriteVocabs == {("O" :> 0) @@ ("PER" :> 1) @@ ("LOC" :> 2),
                ("LOC" :> 0) @@ ("O" :> 1) @@ ("PER" :> 2)}
WriteIndices == 0 .. 2

\* an example of len positions: tokens a, b, ..; gold indices from g upwards,
\* predicted indices from q upwards in steps of two (modulo the label count)
WriteExample(len, g, q) ==
    [tokens |-> [p \in 1 .. len |-> TokenNames[p]],
     gold |-> [p \in 1 .. len |-> (g + p - 1) % 3],
     predicted |-> [p \in 1 .. len |-> (q + 2 * (p - 1)) % 3]]

WriteExamples ==
    {WriteExample(len, g, q) : len \in 0 .. MaxWriteLen, g \in WriteIndices, q \in WriteIndices}

WriteArgs ==
    {[examples |-> es, indexed_labels |-> ix, class_vocab |-> cv, path |-> "predictions.txt"] :
        es \in UNION {[1 .. n -> WriteExamples] : n \in 0 .. MaxExamples},
        ix \in BOOLEAN, cv \in WriteVocabs}

\* the gold labels as the caller hands them over: indices, or names
GoldArgument(a) ==
    [e \in DOMAIN a.examples |->
        [p \in DOMAIN a.examples[e].gold |->
            IF a.indexed_labels THEN a.examples[e].gold[p]
            ELSE IndexToClass(a.class_vocab)[a.examples[e].gold[p]]]]

WriteInit ==
    /\ ModelIdle /\ ForwardIdle /\ MainIdle /\ RunIdle /\ failure = "none"
    /\ files = [p \in Paths |-> Absent]
    /\ wpc = "call"
    /\ w_args \in WriteArgs

\* lines 56-72, one call
W_WritePredictions ==
    /\ wpc = "call"
    /\ files' = [files EXCEPT ![w_args.path] =
          write_predictions([e \in DOMAIN w_args.examples |-> w_args.examples[e].tokens],
                            GoldArgument(w_args),
                            [e \in DOMAIN w_args.examples |-> w_args.examples[e].predicted],
                            w_args.indexed_labels, w_args.class_vocab)]
    /\ wpc' = "returned"
    /\ UNCHANGED w_args
    /\ UNCHANGED <<modelVars, fwdVars, mainVars, failure, runVars>>

WriteNext == W_WritePredictions

SpecWrite == WriteInit /\ [][WriteNext]_vars

\* ------------------------------------------------------------- __main__
\* parse_args, lines 275-277
possible_models == {"recurrent", "rnn", "gru", "lstm2ch", "encoder", "attention",
                    "conv", "init_hidden", "lstmcrf"}
possible_sequences == {"tokens"}
possible_datasets == {"movies", "atis", "vui"}

\* the options parse_args is tried on; "" is opts.get's default of an option
\* that was not given
Options ==
    [model : {"encoder", "lstmcrf", "recurrent", "transformer", ""},
     dataset : {"movies", "atis", "vui", ""},
     sequence : {"tokens", "lemmas"},
     lr : {0 - 1, 0, 1},
     drop : {0 - 1, 0},
     decay : {0 - 1, 0},
     embedding_norm : {0 - 1, 0, embedding_norm},
     batch : {0, 1},
     epochs : {0, 1},
     hidden_size : {0, 3},
     bidirectional : {TRUE},
     unfreeze : {FALSE}]

\* lines 284-312: the assertions, in the order of the code
AssertionsHold(o) ==
    /\ o.lr > 0
    /\ o.drop >= 0
    /\ o.decay >= 0
    /\ o.embedding_norm >= 0
    /\ o.batch > 0
    /\ o.epochs > 0
    /\ o.hidden_size > 0
    /\ o.sequence \in possible_sequences
    /\ o.model \in possible_models
    /\ o.dataset \in possible_datasets

\* lines 314-332: res; "embedding" is set for the movies data set only
ParsedParams(o) ==
    LET res == [k \in {"lr", "drop", "decay", "embedding_norm", "batch", "epochs",
                       "hidden_size", "model", "dataset", "sequence", "save", "write",
                       "dev", "bidirectional", "unfreeze", "char_embedding"} |->
                CASE k = "lr" -> o.lr
                  [] k = "drop" -> o.drop
                  [] k = "decay" -> o.decay
                  [] k = "embedding_norm" -> o.embedding_norm
                  [] k = "batch" -> o.batch
                  [] k = "epochs" -> o.epochs
                  [] k = "hidden_size" -> o.hidden_size
                  [] k = "model" -> o.model
                  [] k = "dataset" -> o.dataset
                  [] k = "sequence" -> o.sequence
                  [] k = "save" -> None
                  [] k = "write" -> None
                  [] k = "dev" -> FALSE
                  [] k = "bidirectional" -> o.bidirectional
                  [] k = "unfreeze" -> o.unfreeze
                  [] k = "char_embedding" -> None]
    IN  IF o.dataset = "movies"
        THEN res @@ ("embedding" :> "../data/movies/w2v_trimmed.pickle")
        ELSE res

MainInit ==
    /\ ModelIdle /\ ForwardIdle /\ WriteIdle /\ RunIdle
    /\ mpc = "parse_args"
    /\ opts \in Options
    /\ params = <<>>
    /\ constructed = {}
    /\ failure = "none"

\* line 405: parse_args
M_ParseArgs ==
    /\ mpc = "parse_args"
    /\ IF AssertionsHold(opts)
       THEN /\ params' = ParsedParams(opts)
            /\ mpc' = "embedding"
            /\ UNCHANGED failure
       ELSE /\ failure' = "AssertionError"
            /\ mpc' = "exit"
            /\ UNCHANGED params
    /\ UNCHANGED <<opts, constructed>>
    /\ UNCHANGED <<modelVars, fwdVars, writeVars, runVars>>

\* lines 415, 347: pick_model_transform reads params["embedding"]
M_Embedding ==
    /\ mpc = "embedding"
    /\ IF "embedding" \in DOMAIN params
       THEN mpc' = "transforms" /\ UNCHANGED failure
       ELSE mpc' = "exit" /\ failure' = "KeyError"
    /\ UNCHANGED <<opts, params, constructed>>
    /\ UNCHANGED <<modelVars, fwdVars, writeVars, runVars>>

\* lines 348-356: class_vocab is bound for the movies data set only; the two
\* data transforms are constructed
M_Transforms ==
    /\ mpc = "transforms"
    /\ IF params["dataset"] = "movies"
       THEN /\ constructed' = constructed \cup {"init_data_transform", "drop_data_transform"}
            /\ mpc' = "model"
            /\ UNCHANGED failure
       ELSE /\ mpc' = "exit"
            /\ failure' = "UnboundLocalError"
            /\ UNCHANGED constructed
    /\ UNCHANGED <<opts, params>>
    /\ UNCHANGED <<modelVars, fwdVars, writeVars, runVars>>

\* lines 358-396: the model is constructed. EncoderDecoderRNN.__init__ takes the
\* device first; the call of lines 368-371 passes w2v_weights first, so that
\* __init__ reads .shape of tag_embedding_size (line 30 of encoder.py).
M_Model ==
    /\ mpc = "model"
    /\ IF params["model"] = "encoder"
       THEN /\ mpc' = "exit"
            /\ failure' = "AttributeError"
            /\ UNCHANGED constructed
       ELSE /\ constructed' = constructed \cup {"model"}
            /\ mpc' = "setup_done"
            /\ UNCHANGED failure
    /\ UNCHANGED <<opts, params>>
    /\ UNCHANGED <<modelVars, fwdVars, writeVars, runVars>>

MainNext ==
    \/ M_ParseArgs
    \/ M_Embedding
    \/ M_Transforms
    \/ M_Model

SpecMain == MainInit /\ [][MainNext]_vars

\* ------------------------------------------------------------- a model call
\* model(batch) of the encoder-decoder as one call. outs[t][i] is the label the
\* network scores highest for element i at step t.
StepOutput(outs, t) == [i \in DOMAIN outs[t] |-> <<LogProbRow(outs[t][i])>>]

FedAt(b, outs, t) ==
    IF t = 1 THEN StartToken(Len(b))
    ELSE DecoderFeedback(StepOutput(outs, t - 1), PaddedLabels(b), t - 1)

\* the recurrent decoder accepts the state the encoder hands over
BridgeFits(hd, bi, n) ==
    Bridge(<<IF bi THEN 2 ELSE 1, n, EncoderHidden(hd, bi)>>, bi)[3] = hd

\* the exception of the first decoder step: the recurrent layer's, or else the
\* batch norm's
ForwardFailure(hd, bi, n) == IF BridgeFits(hd, bi, n) THEN "ValueError" ELSE "RuntimeError"

\* forward runs through for every batch size, in training mode too
ForwardFits(hd, bi) ==
    BridgeFits(hd, bi, 1) /\ \A n \in 1 .. MaxBatch : BatchNormFits(TRUE, n, hd)

Outputs(b) == [1 .. MaxLength(b) -> [1 .. Len(b) -> Labels]]

\* what forward returns, and the tables after it
ModelCall(b, outs, hd, bi, enc, dec) ==
    LET T == MaxLength(b)
        ok == BridgeFits(hd, bi, Len(b)) /\ BatchNormFits(training, Len(b), hd)
        looked == UNION {Indices(FedAt(b, outs, t)) : t \in 1 .. (IF ok THEN T ELSE 1)}
    IN  [ok |-> ok,
         predicted |-> View(TorchCat([t \in 1 .. T |-> StepOutput(outs, t)])),
         labels |-> View(PaddedLabels(b)),
         encoder_rows |-> Indices(PaddedData(b)),
         decoder_rows |-> looked,
         embedding_encoder |-> Renorm(enc, Indices(PaddedData(b)), max_norm_emb1),
         embedding_decoder |-> Renorm(dec, looked, max_norm_emb2)]

\* torch.argmax(predicted, dim=1)
ArgmaxRows(predicted) == [r \in DOMAIN predicted |-> Argmax(predicted[r])]

\* ------------------------------------------------------------- regrouping
RECURSIVE ScanFrom(_, _, _, _, _, _, _)
\* train_model lines 173-184, evaluate_model lines 103-114: the loop over
\* zip(indices, labels) from position k on
ScanFrom(indices, lbls, k, tmp_pred, tmp_true, yp, yt) ==
    IF k > Min(Len(indices), Len(lbls))
    THEN [y_predicted |-> yp, y_true |-> yt]
    ELSE IF lbls[k] # IgnoreLabel
         THEN ScanFrom(indices, lbls, k + 1,
                       Append(tmp_pred, indices[k]), Append(tmp_true, lbls[k]), yp, yt)
         ELSE ScanFrom(indices, lbls, k + 1, <<>>, <<>>,
                       Append(yp, tmp_pred), Append(yt, tmp_true))

Regroup(indices, lbls, yp, yt) == ScanFrom(indices, lbls, 1, <<>>, <<>>, yp, yt)

\* ------------------------------------------------------------- DataLoader
\* the batches a shuffling DataLoader may serve next: batch_size of the
\* examples not served yet (all of them when fewer are left), in any order
NextBatches(left, batch_size) ==
    LET k == Min(batch_size, Cardinality(left))
    IN  {q \in [1 .. k -> left] : \A a, b \in 1 .. k : a # b => q[a] # q[b]}

BatchOf(dataset, q) == [j \in DOMAIN q |-> dataset[q[j]]]

\* ------------------------------------------------------------- scheduler
\* ReduceLROnPlateau(optimizer, 'min', patience=2)
patience == 2
\* float("inf") as a mean: a sum over no count
Inf == <<1, 0>>

\* np.mean(error), kept as <<sum, count>>
Mean(levels) == <<SumSeq(levels), Len(levels)>>

\* the defaults of ReduceLROnPlateau that line 145 leaves alone: threshold=1e-4
\* (threshold_mode 'rel') and factor=0.1 as fractions <<numerator, denominator>>;
\* eps=1e-8 and min_lr=0 in the unit of the learning rates, 1e-10
threshold == <<1, 10000>>
factor == <<1, 10>>
eps == 100
min_lr == 0

\* is_better in mode 'min', threshold_mode 'rel': a < best * (1 - threshold),
\* that is best - a > best * threshold; with x / d = a and y / d = best for
\* the common denominator d, y - x > y * threshold, and y - x is an integer
\* (against best = Inf, x is 0 and y is positive)
IsBetter(a, best) ==
    LET x == a[1] * best[2]
        y == best[1] * a[2]
    IN  y - x > (y * threshold[1]) \div threshold[2]

\* parse_args, lines 284-285: lr > 0, in units of 1e-10; the default 0.01, and
\* a learning rate as small as eps
DefaultLr == 100000000
Lrs == {DefaultLr, eps}

\* _reduce_lr: new_lr = max(old_lr * factor, min_lr)
NewLr(old_lr) == Max({(old_lr * factor[1]) \div factor[2], min_lr})

\* _reduce_lr: the learning rate is set only if old_lr - new_lr > eps
ReduceLr(old_lr) == IF old_lr - NewLr(old_lr) > eps THEN NewLr(old_lr) ELSE old_lr

SchedulerInit(lr) == [best |-> Inf, num_bad_epochs |-> 0, lr |-> lr, last_epoch |-> 0]

\* a scheduler that reduces as soon as patience epochs went without improvement
SchedulerStepEager(sch, metrics) ==
    LET better == IsBetter(metrics, sch.best)
        bad == IF better THEN 0 ELSE sch.num_bad_epochs + 1
    IN  [best |-> IF better THEN metrics ELSE sch.best,
         num_bad_epochs |-> IF bad >= patience THEN 0 ELSE bad,
         lr |-> IF bad >= patience THEN ReduceLr(sch.lr) ELSE sch.lr,
         last_epoch |-> sch.last_epoch + 1]

\* scheduler.step(metrics): best, num_bad_epochs, _reduce_lr on the
\* optimizer's learning rate (no cooldown), last_epoch
SchedulerStep(sch, metrics) ==
    LET better == IsBetter(metrics, sch.best)
        bad == IF better THEN 0 ELSE sch.num_bad_epochs + 1
    IN  [best |-> IF better THEN metrics ELSE sch.best,
         num_bad_epochs |-> IF bad > patience THEN 0 ELSE bad,
         lr |-> IF bad > patience THEN ReduceLr(sch.lr) ELSE sch.lr,
         last_epoch |-> sch.last_epoch + 1]

\* line 169: the values of a batch loss, in units of 1 / LossOne: two that
\* differ by less than the relative threshold, and the multiples of the unit
LossOne == 20000
LossLevels == {LossOne - 1} \cup {k * LossOne : k \in 1 .. MaxLoss}

\* ------------------------------------------------------------- train_model
NoGrads == [encoder_rows |-> {}, decoder_rows |-> {}]

\* line 142: a new Adam holds no running averages
NoState == [encoder_rows |-> {}, decoder_rows |-> {}]

\* parse_args, lines 290-291: decay >= 0; the default 0.0, and a positive decay
Decays == {0, 1}

\* Adam (amsgrad, weight_decay=decay): the rows of a table an optimizer step
\* moves. A row moves when its running average is or becomes non-zero: it has a
\* gradient now, it had one in an earlier step, or the decay adds decay * row
\* to the gradient of a row that is not zero
Moving(weight, state_rows, grad_rows, dec) ==
    {r \in DOMAIN weight :
        r \in state_rows \/ r \in grad_rows \/ (dec > 0 /\ weight[r] # 0)}

\* the table after a step that leaves each moving row at its own norm level
Stepped(weight, levels) ==
    [r \in DOMAIN weight |-> IF r \in DOMAIN levels THEN levels[r] ELSE weight[r]]

\* lines 142-150: optimizer, scheduler, DataLoader
T_Entry ==
    /\ rpc = "train_entry"
    /\ optimizer' = NoState
    /\ scheduler' = SchedulerInit(run_args.lr)
    /\ epoch' = 0
    /\ rpc' = "epoch"
    /\ UNCHANGED <<run_args, means, remaining, cur_batch, loss, grads, error, y_predicted,
                   y_true, e_error, e_y_predicted, e_y_true, e_return, scan>>
    /\ UNCHANGED <<modelVars, fwdVars, writeVars, mainVars, failure>>

\* lines 152-161: the next epoch starts; model.zero_grad()
T_EpochStart ==
    /\ rpc = "epoch"
    /\ epoch < run_args.epochs
    /\ error' = <<>>
    /\ y_predicted' = <<>>
    /\ y_true' = <<>>
    /\ grads' = NoGrads
    /\ remaining' = DOMAIN run_args.train_data
    /\ rpc' = "batch"
    /\ UNCHANGED <<run_args, means, optimizer, epoch, cur_batch, loss, scheduler, e_error,
                   e_y_predicted, e_y_true, e_return, scan>>
    /\ UNCHANGED <<modelVars, fwdVars, writeVars, mainVars, failure>>

\* line 162: the DataLoader serves the next batch
T_NextBatch ==
    /\ rpc = "batch"
    /\ remaining # {}
    /\ \E q \in NextBatches(remaining, run_args.batch_size) :
          /\ cur_batch' = BatchOf(run_args.train_data, q)
          /\ remaining' = remaining \ Range(q)
    /\ rpc' = "forward"
    /\ UNCHANGED <<run_args, means, optimizer, epoch, loss, grads, error, y_predicted, y_true,
                   scheduler, e_error, e_y_predicted, e_y_true, e_return, scan>>
    /\ UNCHANGED <<modelVars, fwdVars, writeVars, mainVars, failure>>

\* lines 165-184: the loss of the batch; for a model that is not the CRF model
\* the forward pass, the arg-max and the regrouping scan. The CRF model is not
\* among the sources: its loss looks the tokens up in its embedding table.
T_Forward ==
    /\ rpc = "forward"
    /\ \E lv \in LossLevels :
        IF is_crf
        THEN /\ loss' = [level |-> lv,
                          encoder_rows |-> Indices(PaddedData(cur_batch)),
                          decoder_rows |-> {}]
             /\ embedding_encoder' =
                   Renorm(embedding_encoder, Indices(PaddedData(cur_batch)), max_norm_emb1)
             /\ rpc' = "backward"
             /\ UNCHANGED <<embedding_decoder, y_predicted, y_true, scan, failure>>
        ELSE \E outs \in Outputs(cur_batch) :
               LET c == ModelCall(cur_batch, outs, hidden_dim, bidirectional,
                                  embedding_encoder, embedding_decoder)
                   g == Regroup(ArgmaxRows(c.predicted), c.labels, y_predicted, y_true)
               IN  /\ embedding_encoder' = c.embedding_encoder
                   /\ embedding_decoder' = c.embedding_decoder
                   /\ IF c.ok
                      THEN /\ loss' = [level |-> lv, encoder_rows |-> c.encoder_rows,
                                        decoder_rows |-> c.decoder_rows]
                           /\ y_predicted' = g.y_predicted
                           /\ y_true' = g.y_true
                           /\ scan' = [batch |-> cur_batch,
                                        indices |-> ArgmaxRows(c.predicted),
                                        before |-> Len(y_true), by |-> "train_model"]
                           /\ rpc' = "backward"
                           /\ UNCHANGED failure
                      ELSE /\ failure' = ForwardFailure(hidden_dim, bidirectional, Len(cur_batch))
                           /\ rpc' = "aborted"
                           /\ UNCHANGED <<loss, y_predicted, y_true, scan>>
    /\ UNCHANGED <<run_args, means, optimizer, epoch, remaining, cur_batch, grads, error, scheduler,
                   e_error, e_y_predicted, e_y_true, e_return>>
    /\ UNCHANGED <<is_crf, hidden_dim, bidirectional, freeze, training, weights>>
    /\ UNCHANGED <<fwdVars, writeVars, mainVars>>

\* line 186: loss.backward() leaves gradients on the parameters the loss was
\* computed from
T_Backward ==
    /\ rpc = "backward"
    /\ grads' = [encoder_rows |-> IF freeze THEN {} ELSE loss.encoder_rows,
                  decoder_rows |-> loss.decoder_rows]
    /\ rpc' = "step"
    /\ scan' = NoScan
    /\ UNCHANGED <<run_args, means, optimizer, epoch, remaining, cur_batch, loss, error, y_predicted,
                   y_true, scheduler, e_error, e_y_predicted, e_y_true, e_return>>
    /\ UNCHANGED <<modelVars, fwdVars, writeVars, mainVars, failure>>

\* line 187: optimizer.step() moves the parameters that require gradients: the
\* recurrent and linear weights, and the moving rows of the tag table and of an
\* unfrozen token table (line 142 filters a frozen table out), each row to a
\* norm of its own
T_Step ==
    /\ rpc = "step"
    /\ LET enc == IF freeze THEN {}
                  ELSE Moving(embedding_encoder, optimizer.encoder_rows,
                              grads.encoder_rows, run_args.decay)
           dec == IF is_crf THEN {}
                  ELSE Moving(embedding_decoder, optimizer.decoder_rows,
                              grads.decoder_rows, run_args.decay)
       IN  /\ \E levels \in [enc -> RowNorms \ {0}] :
                 embedding_encoder' = Stepped(embedding_encoder, levels)
           /\ \E levels \in [dec -> RowNorms \ {0}] :
                 embedding_decoder' = Stepped(embedding_decoder, levels)
           /\ optimizer' = [encoder_rows |-> enc, decoder_rows |-> dec]
    /\ weights' = weights + 1
    /\ rpc' = "zero_grad"
    /\ UNCHANGED <<run_args, means, epoch, remaining, cur_batch, loss, grads, error,
                   y_predicted, y_true, scheduler, e_error, e_y_predicted, e_y_true,
                   e_return, scan>>
    /\ UNCHANGED <<is_crf, hidden_dim, bidirectional, freeze, training>>
    /\ UNCHANGED <<fwdVars, writeVars, mainVars, failure>>

\* lines 188-190: model.zero_grad(); error.append(loss.item())
T_ZeroGrad ==
    /\ rpc = "zero_grad"
    /\ grads' = NoGrads
    /\ error' = Append(error, loss.level)
    /\ rpc' = "batch"
    /\ UNCHANGED <<run_args, means, optimizer, epoch, remaining, cur_batch, loss, y_predicted, y_true,
                   scheduler, e_error, e_y_predicted, e_y_true, e_return, scan>>
    /\ UNCHANGED <<modelVars, fwdVars, writeVars, mainVars, failure>>

\* line 192: the batches of the epoch are done; scheduler.step(np.mean(error))
T_Scheduler ==
    /\ rpc = "batch"
    /\ remaining = {}
    /\ scheduler' = SchedulerStep(scheduler, Mean(error))
    /\ means' = Append(means, Mean(error))
    /\ rpc' = "report"
    /\ UNCHANGED <<run_args, optimizer, epoch, remaining, cur_batch, loss, grads, error,
                   y_predicted, y_true, e_error, e_y_predicted, e_y_true, e_return, scan>>
    /\ UNCHANGED <<modelVars, fwdVars, writeVars, mainVars, failure>>

\* lines 194-203: the prints; for a model that is not the CRF model, line 201
\* calls write_predictions with four of its six required arguments, which
\* raises TypeError before anything is written (lines 202-203 are not reached)
T_Report ==
    /\ rpc = "report"
    /\ IF is_crf
       THEN rpc' = "dev" /\ UNCHANGED failure
       ELSE rpc' = "aborted" /\ failure' = "TypeError"
    /\ UNCHANGED <<run_args, means, optimizer, epoch, remaining, cur_batch, loss, grads, error,
                   y_predicted, y_true, scheduler, e_error, e_y_predicted, e_y_true,
                   e_return, scan>>
    /\ UNCHANGED <<modelVars, fwdVars, writeVars, mainVars>>

\* line 206, dev_data is None: on to the next epoch
T_NoDev ==
    /\ rpc = "dev"
    /\ run_args.dev_data = NoData
    /\ epoch' = epoch + 1
    /\ rpc' = "epoch"
    /\ UNCHANGED <<run_args, means, optimizer, remaining, cur_batch, loss, grads, error, y_predicted,
                   y_true, scheduler, e_error, e_y_predicted, e_y_true, e_return, scan>>
    /\ UNCHANGED <<modelVars, fwdVars, writeVars, mainVars, failure>>

\* lines 206-208: model.eval() and the call of evaluate_model
T_DevEval ==
    /\ rpc = "dev"
    /\ run_args.dev_data # NoData
    /\ training' = FALSE
    /\ e_return' = "train_model"
    /\ rpc' = "ev_entry"
    /\ UNCHANGED <<run_args, means, optimizer, epoch, remaining, cur_batch, loss, grads, error,
                   y_predicted, y_true, scheduler, e_error, e_y_predicted, e_y_true, scan>>
    /\ UNCHANGED <<is_crf, hidden_dim, bidirectional, freeze, embedding_encoder,
                   embedding_decoder, weights>>
    /\ UNCHANGED <<fwdVars, writeVars, mainVars, failure>>

\* line 209: model.train(), and on to the next epoch
T_TrainMode ==
    /\ rpc = "train_mode"
    /\ training' = TRUE
    /\ epoch' = epoch + 1
    /\ rpc' = "epoch"
    /\ UNCHANGED <<run_args, means, optimizer, remaining, cur_batch, loss, grads, error, y_predicted,
                   y_true, scheduler, e_error, e_y_predicted, e_y_true, e_return, scan>>
    /\ UNCHANGED <<is_crf, hidden_dim, bidirectional, freeze, embedding_encoder,
                   embedding_decoder, weights>>
    /\ UNCHANGED <<fwdVars, writeVars, mainVars, failure>>

\* lines 211-212: the epochs are done, train_model returns
T_Return ==
    /\ rpc = "epoch"
    /\ epoch >= run_args.epochs
    /\ rpc' = IF run_args.dev_data = NoData THEN "main_eval" ELSE "done"
    /\ UNCHANGED <<run_args, means, optimizer, epoch, remaining, cur_batch, loss, grads, error,
                   y_predicted, y_true, scheduler, e_error, e_y_predicted, e_y_true,
                   e_return, scan>>
    /\ UNCHANGED <<modelVars, fwdVars, writeVars, mainVars, failure>>

\* ------------------------------------------------------------- evaluate_model
\* "%s" % i for the label indices write_predictions is handed as tokens
DecStr(i) == IF i = 0 THEN "0" ELSE IF i = 1 THEN "1" ELSE IF i = 2 THEN "2" ELSE "3"

AsText(seqs) == [e \in DOMAIN seqs |-> [p \in DOMAIN seqs[e] |-> DecStr(seqs[e][p])]]

dev_pred == "../output/dev_pred.txt"

\* what a call of the model hands the scan: one index per row (the arg-max of
\* the scores; the CRF model returns tag indices itself) and the labels, and
\* the tables after the call
Predicted(b, outs) ==
    LET c == ModelCall(b, outs, hidden_dim, bidirectional, embedding_encoder,
                       embedding_decoder)
    IN  IF is_crf
        THEN [ok |-> TRUE, indices |-> ArgmaxRows(c.predicted), labels |-> c.labels,
              embedding_encoder |-> c.embedding_encoder,
              embedding_decoder |-> embedding_decoder]
        ELSE [ok |-> c.ok, indices |-> ArgmaxRows(c.predicted), labels |-> c.labels,
              embedding_encoder |-> c.embedding_encoder,
              embedding_decoder |-> c.embedding_decoder]

\* lines 83-88
E_Entry ==
    /\ rpc = "ev_entry"
    /\ e_error' = <<>>
    /\ e_y_predicted' = <<>>
    /\ e_y_true' = <<>>
    /\ remaining' = DOMAIN run_args.dev_data
    /\ rpc' = "ev_batch"
    /\ UNCHANGED <<run_args, means, optimizer, epoch, cur_batch, loss, grads, error, y_predicted,
                   y_true, scheduler, e_return, scan>>
    /\ UNCHANGED <<modelVars, fwdVars, writeVars, mainVars, failure>>

\* lines 90-114: one batch of the shuffling DataLoader: the model call, the
\* loss and the arg-max for a model that is not the CRF model, the scan
E_Batch ==
    /\ rpc = "ev_batch"
    /\ remaining # {}
    /\ \E q \in NextBatches(remaining, run_args.batch_size), lv \in LossLevels :
        LET b == BatchOf(run_args.dev_data, q)
        IN  \E outs \in Outputs(b) :
            LET c == Predicted(b, outs)
                g == Regroup(c.indices, c.labels, e_y_predicted, e_y_true)
            IN  /\ cur_batch' = b
                /\ remaining' = remaining \ Range(q)
                /\ embedding_encoder' = c.embedding_encoder
                /\ embedding_decoder' = c.embedding_decoder
                /\ IF c.ok
                   THEN /\ e_error' = IF is_crf THEN e_error ELSE Append(e_error, lv)
                        /\ e_y_predicted' = g.y_predicted
                        /\ e_y_true' = g.y_true
                        /\ scan' = [batch |-> b, indices |-> c.indices,
                                     before |-> Len(e_y_true), by |-> "evaluate_model"]
                        /\ rpc' = "ev_batch"
                        /\ UNCHANGED failure
                   ELSE /\ failure' = ForwardFailure(hidden_dim, bidirectional, Len(b))
                        /\ rpc' = "aborted"
                        /\ UNCHANGED <<e_error, e_y_predicted, e_y_true, scan>>
    /\ UNCHANGED <<run_args, means, optimizer, epoch, loss, grads, error, y_predicted, y_true,
                   scheduler, e_return>>
    /\ UNCHANGED <<is_crf, hidden_dim, bidirectional, freeze, training, weights>>
    /\ UNCHANGED <<fwdVars, writeVars, mainVars>>

\* lines 116-124: the prints and write_predictions(y_true, y_true, y_predicted,
\* "../output/dev_pred.txt", True, class_vocab); class_vocab is bound only for
\* the movies data set
E_Report ==
    /\ rpc = "ev_batch"
    /\ remaining = {}
    /\ IF run_args.dataset = "movies"
       THEN /\ files' = [files EXCEPT ![dev_pred] =
                           write_predictions(AsText(e_y_true), e_y_true, e_y_predicted,
                                             TRUE, class_vocab_movies)]
            /\ rpc' = "ev_score"
            /\ UNCHANGED failure
       ELSE /\ failure' = "UnboundLocalError"
            /\ rpc' = "aborted"
            /\ UNCHANGED files
    /\ scan' = NoScan
    /\ UNCHANGED <<wpc, w_args>>
    /\ UNCHANGED <<run_args, means, optimizer, epoch, remaining, cur_batch, loss, grads, error,
                   y_predicted, y_true, scheduler, e_error, e_y_predicted, e_y_true,
                   e_return>>
    /\ UNCHANGED <<modelVars, fwdVars, mainVars>>

\* line 125: the scoring script reads the file
E_Score ==
    /\ rpc = "ev_score"
    /\ rpc' = "ev_rm"
    /\ UNCHANGED <<run_args, means, optimizer, epoch, remaining, cur_batch, loss, grads, error,
                   y_predicted, y_true, scheduler, e_error, e_y_predicted, e_y_true,
                   e_return, scan>>
    /\ UNCHANGED <<modelVars, fwdVars, writeVars, mainVars, failure>>

\* line 126: rm ../output/dev_pred.txt, and evaluate_model returns: its locals
\* are gone
E_Remove ==
    /\ rpc = "ev_rm"
    /\ files' = [files EXCEPT ![dev_pred] = Absent]
    /\ rpc' = IF e_return = "train_model" THEN "train_mode" ELSE "ev_returned"
    /\ e_error' = <<>> /\ e_y_predicted' = <<>> /\ e_y_true' = <<>>
    /\ cur_batch' = <<>>
    /\ UNCHANGED <<wpc, w_args>>
    /\ UNCHANGED <<run_args, means, optimizer, epoch, remaining, loss, grads, error,
                   y_predicted, y_true, scheduler, e_return, scan>>
    /\ UNCHANGED <<modelVars, fwdVars, mainVars, failure>>

\* ------------------------------------------------------------- predict
\* lines 444-446 and 36-39: model.eval() and the entry of predict
P_Entry ==
    /\ rpc = "main_eval"
    /\ training' = FALSE
    /\ e_y_predicted' = <<>>
    /\ remaining' = DOMAIN run_args.test_data
    /\ rpc' = "predict"
    /\ UNCHANGED <<run_args, means, optimizer, epoch, cur_batch, loss, grads, error, y_predicted,
                   y_true, scheduler, e_error, e_y_true, e_return, scan>>
    /\ UNCHANGED <<is_crf, hidden_dim, bidirectional, freeze, embedding_encoder,
                   embedding_decoder, weights>>
    /\ UNCHANGED <<fwdVars, writeVars, mainVars, failure>>

\* lines 40-52: the examples one at a time and in order
P_Batch ==
    /\ rpc = "predict"
    /\ remaining # {}
    /\ LET i == CHOOSE j \in remaining : \A k \in remaining : j <= k
           b == <<run_args.test_data[i]>>
       IN  \E outs \in Outputs(b) :
           LET c == Predicted(b, outs)
           IN  /\ cur_batch' = b
               /\ remaining' = remaining \ {i}
               /\ embedding_encoder' = c.embedding_encoder
               /\ embedding_decoder' = c.embedding_decoder
               /\ IF c.ok
                  THEN /\ e_y_predicted' = Append(e_y_predicted, c.indices)
                       /\ rpc' = "predict"
                       /\ UNCHANGED failure
                  ELSE /\ failure' = ForwardFailure(hidden_dim, bidirectional, Len(b))
                       /\ rpc' = "aborted"
                       /\ UNCHANGED e_y_predicted
    /\ UNCHANGED <<run_args, means, optimizer, epoch, loss, grads, error, y_predicted, y_true,
                   scheduler, e_error, e_y_true, e_return, scan>>
    /\ UNCHANGED <<is_crf, hidden_dim, bidirectional, freeze, training, weights>>
    /\ UNCHANGED <<fwdVars, writeVars, mainVars>>

\* line 53
P_Return ==
    /\ rpc = "predict"
    /\ remaining = {}
    /\ rpc' = "done"
    /\ UNCHANGED <<run_args, means, optimizer, epoch, remaining, cur_batch, loss, grads, error,
                   y_predicted, y_true, scheduler, e_error, e_y_predicted, e_y_true,
                   e_return, scan>>
    /\ UNCHANGED <<modelVars, fwdVars, writeVars, mainVars, failure>>

\* ------------------------------------------------------------- the runs
\* the data of the runs: n examples of alternating lengths
RunData(n) == [i \in 1 .. n |-> Example(1 + (i % 2), i % 2, i % 2)]

HeldOut == RunData(MaxData)

TrainDatasets == {RunData(n) : n \in 1 .. MaxData}

\* a hidden_dim the two directions share evenly, one they do not, and the
\* smallest
RunConfigs == {<<MaxHidden, FALSE>>, <<MaxHidden - 1, TRUE>>, <<1, FALSE>>}

\* the models a run is given: the encoder-decoder in its configurations, or the
\* CRF model
RunModels ==
    /\ is_crf \in BOOLEAN
    /\ \E cf \in (IF is_crf THEN {<<MaxHidden, FALSE>>} ELSE RunConfigs) :
          hidden_dim = cf[1] /\ bidirectional = cf[2]
    /\ freeze \in BOOLEAN
    /\ weights = 0
    /\ \E n \in RowNorms \ {0} :
          /\ embedding_encoder = UniformTable(EncoderRows, n)
          /\ embedding_decoder = UniformTable(DecoderRows, n)

\* train_model(train_data, model, dev_data, batch, lr, epochs, decay) as the
\* main block calls it, in dev mode or in test mode, on a model whose tables
\* are as loaded, with rows above the bound
TrainInit ==
    /\ ForwardIdle /\ WriteIdle /\ MainIdle
    /\ failure = "none"
    /\ RunModels
    /\ \A r \in EncoderRows : embedding_encoder[r] > max_norm_emb1
    /\ training = TRUE
    /\ rpc = "train_entry"
    /\ run_args \in [train_data : TrainDatasets, dev_data : {NoData, HeldOut},
                      test_data : {HeldOut}, batch_size : 1 .. MaxBatch,
                      epochs : 1 .. MaxEpochs, decay : Decays, lr : {DefaultLr},
                      dataset : {"movies"}]
    /\ epoch = 0
    /\ remaining = {}
    /\ cur_batch = <<>>
    /\ loss = [level |-> 0, encoder_rows |-> {}, decoder_rows |-> {}]
    /\ grads = NoGrads
    /\ optimizer = NoState
    /\ error = <<>> /\ y_predicted = <<>> /\ y_true = <<>>
    /\ scheduler = SchedulerInit(run_args.lr)
    /\ means = <<>>
    /\ e_error = <<>> /\ e_y_predicted = <<>> /\ e_y_true = <<>>
    /\ e_return = "none"
    /\ scan = NoScan

TrainNext ==
    \/ T_Entry \/ T_EpochStart \/ T_NextBatch \/ T_Forward \/ T_Backward
    \/ T_Step \/ T_ZeroGrad \/ T_Scheduler \/ T_Report \/ T_NoDev
    \/ T_DevEval \/ T_TrainMode \/ T_Return
    \/ E_Entry \/ E_Batch \/ E_Report \/ E_Score \/ E_Remove
    \/ P_Entry \/ P_Batch \/ P_Return

SpecTrain == TrainInit /\ [][TrainNext]_vars

\* train_model without validation data and without decay, on a model with a
\* frozen token table, for the epochs it takes the scheduler to see a first
\* epoch and then more than patience epochs
ScheduleEpochs == patience + 2

ScheduleInit ==
    /\ ForwardIdle /\ WriteIdle /\ MainIdle
    /\ failure = "none"
    /\ RunModels
    /\ freeze
    /\ training = TRUE
    /\ rpc = "train_entry"
    /\ run_args \in [train_data : TrainDatasets, dev_data : {NoData},
                      test_data : {HeldOut}, batch_size : 1 .. MaxBatch,
                      epochs : {ScheduleEpochs}, decay : {0}, lr : Lrs,
                      dataset : {"movies"}]
    /\ epoch = 0
    /\ remaining = {}
    /\ cur_batch = <<>>
    /\ loss = [level |-> 0, encoder_rows |-> {}, decoder_rows |-> {}]
    /\ grads = NoGrads
    /\ optimizer = NoState
    /\ error = <<>> /\ y_predicted = <<>> /\ y_true = <<>>
    /\ scheduler = SchedulerInit(run_args.lr)
    /\ means = <<>>
    /\ e_error = <<>> /\ e_y_predicted = <<>> /\ e_y_true = <<>>
    /\ e_return = "none"
    /\ scan = NoScan

ScheduleNext ==
    \/ T_Entry \/ T_EpochStart \/ T_NextBatch \/ T_Forward \/ T_Backward
    \/ T_Step \/ T_ZeroGrad \/ T_Scheduler \/ T_Report \/ T_NoDev \/ T_Return

SpecSchedule == ScheduleInit /\ [][ScheduleNext]_vars

\* the data evaluate_model is tried on: examples of every length
EvalExamples == {Example(len, 0, 0) : len \in 1 .. MaxLen}

EvalDatasets == UNION {[1 .. n -> EvalExamples] : n \in 1 .. MaxData}

\* evaluate_model(dev_data, model, batch_size) on its own, the model in
\* evaluation mode
EvaluateInit ==
    /\ ForwardIdle /\ WriteIdle /\ MainIdle
    /\ failure = "none"
    /\ RunModels
    /\ training = FALSE
    /\ rpc = "ev_entry"
    /\ run_args \in [train_data : {<<>>}, dev_data : EvalDatasets, test_data : {<<>>},
                      batch_size : 1 .. MaxBatch, epochs : {0}, decay : {0},
                      lr : {DefaultLr}, dataset : {"movies"}]
    /\ epoch = 0
    /\ remaining = {}
    /\ cur_batch = <<>>
    /\ loss = [level |-> 0, encoder_rows |-> {}, decoder_rows |-> {}]
    /\ grads = NoGrads
    /\ optimizer = NoState
    /\ error = <<>> /\ y_predicted = <<>> /\ y_true = <<>>
    /\ scheduler = SchedulerInit(run_args.lr)
    /\ means = <<>>
    /\ e_error = <<>> /\ e_y_predicted = <<>> /\ e_y_true = <<>>
    /\ e_return = "caller"
    /\ scan = NoScan

EvaluateNext == E_Entry \/ E_Batch \/ E_Report \/ E_Score \/ E_Remove

SpecEvaluate == EvaluateInit /\ [][EvaluateNext]_vars

\* ------------------------------------------------------------- forward: claims
BatchN == Len(batch)
BatchT == MaxLength(batch)

\* C3: what forward returns has N*T rows of tagset_size log-probabilities and
\* N*T labels; row (i-1)*T + t is the decoder's output for example i at step t
\* and label (i-1)*T + t is example i's gold label at position t, or -1 where
\* position t of example i is padding.
C3_ForwardAligned ==
    fpc = "done" =>
        /\ Len(ret.predicted) = BatchN * BatchT
        /\ Len(ret.labels) = BatchN * BatchT
        /\ \A r \in DOMAIN ret.predicted : DOMAIN ret.predicted[r] = Labels
        /\ \A i \in 1 .. BatchN : \A t \in 1 .. BatchT :
              /\ ret.predicted[(i - 1) * BatchT + t] = results[t][i][1]
              /\ ret.labels[(i - 1) * BatchT + t] =
                    IF t <= Len(batch[i].concepts)
                    THEN batch[i].concepts[t] ELSE IgnoreLabel

\* forward has returned for two examples of different lengths whose step
\* outputs differ between the examples and between the steps
C3_Witness ==
    /\ fpc = "done"
    /\ BatchN = 2
    /\ Len(batch[1].tokens) < Len(batch[2].tokens)
    /\ results[1][1] # results[1][2]
    /\ results[1][1] # results[2][1]

\* C4: after the start-token lines of forward, every entry of decoder_input is
\* tagset_size, the index of the extra last row of the tag-embedding table.
C4_StartTokenIsTagsetSize ==
    fpc = "bridge" => \A i \in DOMAIN decoder_input : decoder_input[i][1] = tagset_size

\* C5: from the second decoder step on, the label fed for every element is the
\* arg-max of that element's output of the step before, and the call on the
\* batch that differs in every gold label is fed the same labels at every step.
C5_GreedyFeedback ==
    /\ \A t \in 2 .. Len(fed) : \A i \in DOMAIN fed[t] :
          fed[t][i][1] = Argmax(results[t - 1][i][1])
    /\ twin_input = decoder_input

\* a second step was fed a label that is not the gold label of the position
\* before it, in a batch whose twin has other gold labels
C5_Witness ==
    /\ Len(fed) >= 2
    /\ fed[2][1][1] # labels[1][1]
    /\ PaddedLabels(TwinBatch(batch)) # labels
    /\ labels[1][1] # IgnoreLabel

\* C6: for every batch the decoder loop ends after exactly T calls of
\* decoder_forward, whatever the lengths of the examples and the labels
\* predicted: it never runs more than T steps and never exits before them.
C6_LoopRunsMaxLength ==
    /\ Len(fed) <= BatchT
    /\ di <= BatchT
    /\ fpc \in {"done", "error"} =>
          fpc = "done" /\ Len(fed) = BatchT /\ di = BatchT /\ Len(results) = BatchT

\* C7: the hidden state handed to the decoder has feature size hidden_dim:
\* bidirectional, the two direction slices of the encoder's final state side
\* by side; unidirectional, the encoder's final state as it is.
C7_BridgedSize ==
    fpc \in {"decode", "done", "error"} =>
        /\ hidden_decoder[3] = hidden_dim
        /\ bidirectional => hidden_decoder[3] = hidden_encoder[3] + hidden_encoder[3]
        /\ ~bidirectional => hidden_decoder = hidden_encoder

\* the number of strings written before example e's
WriteOffset(a, e) == SumSeq([k \in 1 .. (e - 1) |-> Len(a.examples[k].tokens) + 1])

\* C8: for each example in input order, one line "<token> <gold> <predicted>"
\* per position, the gold and predicted names being those the class vocabulary
\* maps to the indices, and then exactly one empty line; tokens [a, b], gold
\* [0, 1], predicted [0, 2] with O=0, PER=1, LOC=2 give "a O O\nb PER LOC\n\n".
C8_WriteFormat ==
    wpc = "returned" =>
        LET a == w_args
            f == files[a.path]
        IN  /\ f # Absent
            /\ Len(f) = SumSeq([e \in DOMAIN a.examples |-> Len(a.examples[e].tokens) + 1])
            /\ \A e \in DOMAIN a.examples :
                  /\ f[WriteOffset(a, e) + Len(a.examples[e].tokens) + 1] = "\n"
                  /\ \A p \in DOMAIN a.examples[e].tokens :
                        \E g \in DOMAIN a.class_vocab, q \in DOMAIN a.class_vocab :
                          /\ a.class_vocab[g] = a.examples[e].gold[p]
                          /\ a.class_vocab[q] = a.examples[e].predicted[p]
                          /\ f[WriteOffset(a, e) + p] =
                                a.examples[e].tokens[p] \o " " \o g \o " " \o q \o "\n"
            /\ ( /\ a.examples = <<WriteExample(2, 0, 0)>>
                 /\ a.class_vocab = ("O" :> 0) @@ ("PER" :> 1) @@ ("LOC" :> 2) )
               => FileText(f) = "a O O\nb PER LOC\n\n"

\* the call of the example, with indexed gold labels, has returned and the
\* file holds its text
C8_Witness ==
    /\ wpc = "returned"
    /\ w_args.examples = <<WriteExample(2, 0, 0)>>
    /\ w_args.class_vocab = ("O" :> 0) @@ ("PER" :> 1) @@ ("LOC" :> 2)
    /\ w_args.indexed_labels
    /\ FileText(files[w_args.path]) = "a O O\nb PER LOC\n\n"

\* the configurations the claim calls invalid
InvalidConfiguration(o) ==
    \/ o.model \notin possible_models
    \/ o.dataset \notin possible_datasets
    \/ o.sequence \notin possible_sequences
    \/ o.lr <= 0
    \/ o.batch <= 0
    \/ o.epochs <= 0
    \/ o.drop < 0
    \/ o.decay < 0
    \/ o.embedding_norm < 0

\* C9: an invalid configuration ends parse_args with an assertion error before
\* anything is constructed, and a configuration parse_args accepts never makes
\* pick_model_transform fail on a missing configuration entry.
C9_FailFastAndComplete ==
    /\ (InvalidConfiguration(opts) /\ mpc # "parse_args") =>
          (failure = "AssertionError" /\ constructed = {})
    /\ (mpc # "parse_args" /\ failure # "AssertionError") => failure # "KeyError"

\* ------------------------------------------------------------- runs: claims
\* C1: train_model on a model that is not the CRF model, whose decoder accepts
\* the state the encoder hands over, runs its epochs without any step of an
\* epoch aborting the run, and returns only after all of them.
C1_TrainRunsAllEpochs ==
    (~is_crf /\ ForwardFits(hidden_dim, bidirectional)) =>
        /\ rpc # "aborted"
        /\ failure = "none"
        /\ rpc \in {"main_eval", "predict", "done"} => epoch = run_args.epochs

\* the groups a scan of batch b is to append: the gold labels, and the
\* predictions, of each example's own positions
GoldGroups(b) == [i \in 1 .. Len(b) |-> b[i].concepts]

PredictedGroups(b, indices) ==
    [i \in 1 .. Len(b) |->
        [p \in 1 .. Len(b[i].tokens) |-> indices[(i - 1) * MaxLength(b) + p]]]

Added(groups, before) == SubSeq(groups, before + 1, Len(groups))

\* C2: the scan of a batch of N examples appends exactly N groups to
\* y_predicted and to y_true, the i-th holding the predictions and the gold
\* labels of the i-th example's positions.
C2_RegroupPerExample ==
    (rpc = "ev_batch" /\ scan.by = "evaluate_model") =>
        /\ Added(e_y_true, scan.before) = GoldGroups(scan.batch)
        /\ Added(e_y_predicted, scan.before) = PredictedGroups(scan.batch, scan.indices)

Parameters == <<embedding_encoder, embedding_decoder, weights>>

InForward == rpc \in {"forward", "ev_batch", "predict"}

\* C10 as stated: the parameters change only in optimizer.step(); every other
\* step, every forward pass included, leaves them as they are.
C10_OnlyOptimizerStep == [][Parameters' # Parameters => rpc = "step"]_vars

\* the only change is that rows among `looked`, above max_norm before, are at
\* max_norm after
OnlyRescaled(before, after, looked, max_norm) ==
    \A r \in DOMAIN before :
        after[r] # before[r] =>
            r \in looked /\ before[r] > max_norm /\ after[r] = max_norm

\* C10, amended: the parameters change only in optimizer.step() and in the
\* embedding lookups of a forward pass, which leave the recurrent and linear
\* weights alone and only rescale to max_norm rows that are looked up (token
\* rows of the batch, label rows of the tag table) and exceed it;
\* optimizer.step() is entered only from the backward pass, and that only from
\* the forward pass, of the same batch.
C10_StepOrRescale ==
    /\ [][Parameters' # Parameters =>
            \/ rpc = "step"
            \/ /\ InForward
               /\ weights' = weights
               /\ OnlyRescaled(embedding_encoder, embedding_encoder',
                               Indices(PaddedData(cur_batch')), max_norm_emb1)
               /\ OnlyRescaled(embedding_decoder, embedding_decoder',
                               Labels, max_norm_emb2)]_vars
    /\ [][(rpc' = "step" /\ rpc # "step") =>
            (rpc = "backward" /\ cur_batch' = cur_batch)]_vars
    /\ [][(rpc' = "backward" /\ rpc # "backward") =>
            (rpc = "forward" /\ cur_batch' = cur_batch)]_vars

\* before any optimizer step, the forward pass of a batch has rescaled the
\* token rows it looked up and left a row it did not look up above max_norm
C10_Witness ==
    /\ rpc = "backward"
    /\ weights = 0
    /\ \E r \in Indices(PaddedData(cur_batch)) : embedding_encoder[r] = max_norm_emb1
    /\ \E r \in EncoderRows \ Indices(PaddedData(cur_batch)) :
          embedding_encoder[r] > max_norm_emb1

\* a forward pass of the encoder-decoder in train_model has just returned; the
\* loss holds the rows the pass looked up
AfterForward == rpc = "backward" /\ ~is_crf

\* C11 as stated: after any forward pass no row of the token table exceeds
\* max_norm_emb1 and no row of the tag table exceeds max_norm_emb2, the rows
\* not looked up in the pass included.
C11_MaxNormEveryRow ==
    AfterForward =>
        /\ \A r \in EncoderRows : embedding_encoder[r] <= max_norm_emb1
        /\ \A r \in DecoderRows : embedding_decoder[r] <= max_norm_emb2

\* C11, amended: after any forward pass, from any tables (rows as loaded or as
\* an optimizer step left them), no row the pass looked up exceeds the
\* max-norm of its table: the token rows of the padded batch, and the tag rows
\* fed to the decoder.
C11_MaxNormLookedUpRows ==
    AfterForward =>
        /\ loss.encoder_rows = Indices(PaddedData(cur_batch))
        /\ \A r \in loss.encoder_rows : embedding_encoder[r] <= max_norm_emb1
        /\ \A r \in loss.decoder_rows : embedding_decoder[r] <= max_norm_emb2

\* after an optimizer step, a forward pass has returned: a tag row it looked up
\* is at max_norm_emb2 and a tag row it did not look up is above it
C11_Witness ==
    /\ AfterForward
    /\ weights >= 1
    /\ \E r \in loss.decoder_rows : embedding_decoder[r] = max_norm_emb2
    /\ \E r \in DecoderRows \ loss.decoder_rows : embedding_decoder[r] > max_norm_emb2

\* positions of train_model at which a training batch is being processed, and
\* positions of the validation pass
InTrainingBatch == rpc \in {"forward", "backward", "step", "zero_grad"}

InValidation == rpc \in {"ev_entry", "ev_batch", "ev_score", "ev_rm"}

\* C12: with validation data supplied, every epoch goes from its training
\* batches and its report on to: evaluation mode, the validation pass, the
\* predictions written to the file, the scorer run on the file, the file
\* deleted, training mode; so the training batches are processed in training
\* mode, the validation batches in evaluation mode, the file is there when the
\* scorer runs and is not there outside the validation, and no epoch stops
\* before its validation.
C12_ValidationEveryEpoch ==
    (run_args.dev_data # NoData /\ ForwardFits(hidden_dim, bidirectional)) =>
        /\ InTrainingBatch => training
        /\ InValidation => ~training
        /\ rpc \in {"ev_score", "ev_rm"} => files[dev_pred] # Absent
        /\ ~InValidation => files[dev_pred] = Absent
        /\ rpc = "train_mode" => ~training
        /\ rpc # "aborted"

\* the batches of an epoch: len(train_data) / batch_size, rounded up
NumBatches ==
    (Len(run_args.train_data) + run_args.batch_size - 1) \div run_args.batch_size

\* the scheduler has been stepped in the current epoch: control is between
\* line 192 and the end of the loop body, the validation pass of lines 207-209
\* included, or the run was aborted there (by the report of line 201, or
\* inside the validation pass)
SteppedThisEpoch ==
    \/ rpc \in {"report", "dev", "train_mode"}
    \/ rpc \in {"ev_entry", "ev_batch", "ev_score", "ev_rm"} /\ e_return = "train_model"
    \/ rpc = "aborted" /\ (failure = "TypeError" \/ e_return = "train_model")

\* the scheduler is stepped once per epoch, after all of the epoch's batches,
\* with the mean of the epoch's recorded batch losses
OncePerEpoch ==
    rpc # "train_entry" => Len(means) = (IF SteppedThisEpoch THEN epoch + 1 ELSE epoch)

StepAfterBatches ==
    (means' # means \/ scheduler' # scheduler) =>
        /\ rpc = "batch" /\ remaining = {} /\ Len(error) = NumBatches
        /\ means' = Append(means, Mean(error))

\* a improves on best by more than the fraction thr of best
Improves(a, best, thr) ==
    (best[1] * a[2] - a[1] * best[2]) > (best[1] * a[2] * thr[1]) \div thr[2]

RECURSIVE BestBefore(_, _, _)
\* the best of the first k - 1 epoch means h, an epoch's mean replacing the
\* best when it improves on it by more than thr
BestBefore(h, k, thr) ==
    IF k = 1 THEN Inf
    ELSE LET b == BestBefore(h, k - 1, thr)
         IN  IF Improves(h[k - 1], b, thr) THEN h[k - 1] ELSE b

NonImproving(h, k, thr) == ~Improves(h[k], BestBefore(h, k, thr), thr)

RECURSIVE Requested(_, _, _, _)
\* the step of epoch k asks for a lower learning rate: epoch k is the last of
\* n consecutive non-improving epochs, none of which was already answered by
\* a request
Requested(h, k, n, thr) ==
    /\ k >= n
    /\ \A j \in (k - n + 1) .. k : NonImproving(h, j, thr)
    /\ \A j \in (k - n + 1) .. (k - 1) : ~Requested(h, j, n, thr)

RECURSIVE LrAfter(_, _, _, _, _, _)
\* the learning rate after the steps of the first k epochs, from lr0: a
\* request divides it by ten, unless that lowers it by no more than least
LrAfter(h, k, lr0, n, thr, least) ==
    IF k = 0 THEN lr0
    ELSE LET lr == LrAfter(h, k - 1, lr0, n, thr, least)
         IN  IF Requested(h, k, n, thr) /\ lr - lr \div 10 > least
             THEN lr \div 10 ELSE lr

\* C13 as stated: the scheduler is stepped once per epoch, after the epoch's
\* batches, with the mean of the epoch's losses, and the learning rate is
\* reduced at the scheduler step of the second consecutive epoch whose mean
\* loss does not improve on the best seen.
C13_ReduceAtSecondBadEpoch ==
    /\ []OncePerEpoch
    /\ [][StepAfterBatches]_vars
    /\ [](rpc # "train_entry" =>
            scheduler.lr = LrAfter(means, Len(means), run_args.lr, 2, <<0, 1>>, 0))

\* C13, amended: the scheduler is stepped once per epoch, after the epoch's
\* batches, with the mean of the epoch's losses; an epoch improves when its
\* mean is below the best so far by more than the fraction 1e-4 of it; the
\* step of the third consecutive epoch that does not improve (patience + 1)
\* asks for a reduction, and no other step does; the reduction divides the
\* learning rate by ten, unless that lowers it by no more than 1e-8.
C13_ReduceAfterPatience ==
    /\ []OncePerEpoch
    /\ [][StepAfterBatches]_vars
    /\ [](rpc # "train_entry" =>
            scheduler.lr =
                LrAfter(means, Len(means), run_args.lr, patience + 1, threshold, eps))

\* the step of the fourth epoch has reduced the learning rate: the first epoch
\* set the best, the second was below it by less than the threshold and so
\* did not replace it, and the two after it did not improve either
C13_Witness ==
    /\ rpc = "report"
    /\ epoch = patience + 1
    /\ Len(means) = patience + 2
    /\ scheduler.lr < run_args.lr
    /\ Improves(means[2], means[1], <<0, 1>>)
    /\ scheduler.best = means[1]

\* the pairs held by the groups, and the tokens of a data set
Pairs(groups) == SumSeq([k \in DOMAIN groups |-> Len(groups[k])])

Tokens(dataset) == SumSeq([k \in DOMAIN dataset |-> Len(dataset[k].tokens)])

\* a group holds gold labels of one example only, from its first position on
OfOneExample(group, dataset) ==
    \E k \in DOMAIN dataset :
        /\ Len(group) <= Len(dataset[k].concepts)
        /\ group = SubSeq(dataset[k].concepts, 1, Len(group))

\* C14: once the scan has processed all batches, every position whose gold
\* label is not -1 has given one pair to one group: the groups of y_predicted
\* and of y_true hold as many pairs as the data has tokens (none is lost after
\* the last -1 of a batch), and no group mixes the tokens of two examples.
C14_TokenConservation ==
    (rpc = "ev_batch" /\ remaining = {}) =>
        /\ Pairs(e_y_true) = Tokens(run_args.dev_data)
        /\ Pairs(e_y_predicted) = Tokens(run_args.dev_data)
        /\ \A k \in DOMAIN e_y_true : OfOneExample(e_y_true[k], run_args.dev_data)

====
